---- MODULE Spec2Model ----
(***************************************************************************)
(* Model of SudoMds/CfRenew.                                               *)
(*                                                                         *)
(* Cfsc.py: run() reads the quota COUNT and the ranges of ips.txt, expands *)
(* THREADS ranges at a time with select(), and select() hands batches of   *)
(* NUM_IPS addresses to check() through asyncio.gather.  asyncio runs one  *)
(* callback at a time, so every action below is one uninterrupted stretch  *)
(* of coroutine code between two suspension points.  The model starts      *)
(* where run has read config.json, has a probe target and has read         *)
(* ips.txt (line 151).                                                     *)
(***************************************************************************)
EXTENDS Integers, Sequences, FiniteSets, TLC

(* Program constants. *)
THREADS == 2

(* Bounds of the model.  NUM_IPS is 10 in the source (Cfsc.py:17); it is   *)
(* scaled down here so that a range of four addresses spans two batches.   *)
NUM_IPS == 2
MaxQuota == 2
MaxRanges == 3
MaxPrefix == 2
MaxAddrs == 6

MaxCand == 3

MaxProxies == 3
MaxConc == 2

MaxLines == 3
NumAddrs == 2

VARIABLES cloud_ips, quota0, COUNT, runpc, grp, selpc, next, handed, pc, good_ips,
          local_urls, remote_ok, remote_urls, fetched, tried, SPEED_DOMAIN,
          file, concurrency, proxies, semaphore, tasks, resp,
          download_speed, upload_speed, results, mainpc,
          ipfile, ips, existing_ips, pos, requests, dnspc

(* The inputs and the history of the search for a probe target. *)
resolverVars == <<local_urls, remote_ok, remote_urls, fetched, tried>>

(* The state of the probing of the ranges, the position of run excepted. *)
probeVars == <<cloud_ips, quota0, COUNT, grp, selpc, next, handed, pc, good_ips>>

(* The state of dupcf2.py, a program of its own. *)
proxyVars == <<file, concurrency, proxies, semaphore, tasks, resp,
               download_speed, upload_speed, results, mainpc>>

(* The state of dupcf.py, a program of its own. *)
dnsVars == <<ipfile, ips, existing_ips, pos, requests, dnspc>>

(* What the probing of the ranges never writes. *)
otherVars == <<resolverVars, proxyVars, dnsVars>>

vars == <<cloud_ips, quota0, COUNT, runpc, grp, selpc, next, handed, pc, good_ips,
          local_urls, remote_ok, remote_urls, fetched, tried, SPEED_DOMAIN,
          file, concurrency, proxies, semaphore, tasks, resp,
          download_speed, upload_speed, results, mainpc,
          ipfile, ips, existing_ips, pos, requests, dnspc>>

(* Python's None as a value of SPEED_DOMAIN; a candidate is <<source, line>>. *)
None == <<0, 0>>

Min(a, b) == IF a < b THEN a ELSE b

(* A line of ips.txt: a CIDR block with hostbits host bits, or a line that *)
(* ipaddress.ip_network rejects.                                           *)
RangeLines == [valid : {TRUE}, hostbits : 0..MaxPrefix]
                \cup {[valid |-> FALSE, hostbits |-> 0]}

(* Number of addresses ip_network(line) iterates over. *)
Size(line) == IF line.valid THEN 2^(line.hostbits) ELSE 0

Ranges == 1..Len(cloud_ips)

Addrs(r) == 1..Size(cloud_ips[r])

(* cloud_ips[i * THREADS:(i + 1) * THREADS] *)
Group(i) == {r \in Ranges : i * THREADS < r /\ r <= (i + 1) * THREADS}

(* range(-(-len(cloud_ips) // THREADS)) *)
NumGroups == (Len(cloud_ips) + THREADS - 1) \div THREADS

(* The addresses select collects before its next gather: the next NUM_IPS  *)
(* addresses, or the remainder of the range.                               *)
NextBatchDropsRemainder(r) ==
    IF next[r] + NUM_IPS <= Size(cloud_ips[r])
    THEN (next[r] + 1)..(next[r] + NUM_IPS)
    ELSE {}

NextBatch(r) == (next[r] + 1)..Min(next[r] + NUM_IPS, Size(cloud_ips[r]))

(* The list collect at the gather, in the order of its appends. *)
Collect(r) == [k \in 1..Cardinality(NextBatch(r)) |-> next[r] + k]

Returned == {"done", "rejected"}

InFlight == {p \in Ranges \X (1..(2^MaxPrefix)) :
               p[2] \in Addrs(p[1]) /\ pc[p[1]][p[2]] \in {"post", "write"}}

(* The number of addresses of the first n lines of a file. *)
RECURSIVE TotalSize(_, _)
TotalSize(lines, n) == IF n = 0 THEN 0 ELSE Size(lines[n]) + TotalSize(lines, n - 1)

(* The contents of ips.txt the model starts from. *)
IpsFiles == {lines \in UNION {[1..n -> RangeLines] : n \in 1..MaxRanges} :
               TotalSize(lines, Len(lines)) <= MaxAddrs}

InitProbe ==
    /\ quota0 \in 1..MaxQuota
    /\ COUNT = quota0
    /\ grp = 0
    /\ selpc = [r \in Ranges |-> "none"]
    /\ next = [r \in Ranges |-> 0]
    /\ handed = [r \in Ranges |-> <<>>]
    /\ pc = [r \in Ranges |-> [i \in Addrs(r) |-> "none"]]
    /\ good_ips = <<>>

(* dupcf.py before create_records has run. *)
DnsIdle ==
    /\ ipfile = <<>>
    /\ ips = <<>>
    /\ existing_ips = {}
    /\ pos = 0
    /\ requests = <<>>
    /\ dnspc = "start"

(* dupcf2.py before its main has run. *)
ProxyIdle ==
    /\ file = <<>>
    /\ concurrency = 1
    /\ proxies = <<>>
    /\ semaphore = 0
    /\ tasks = <<>>
    /\ resp = <<>>
    /\ download_speed = <<>>
    /\ upload_speed = <<>>
    /\ results = <<>>
    /\ mainpc = "main"

(* The probing of the ranges of any ips.txt, from the point where run has  *)
(* selected the first candidate of a one-line local list as its target.    *)
Init ==
    /\ cloud_ips \in IpsFiles
    /\ InitProbe
    /\ runpc = "ready"
    /\ local_urls = <<"200">>
    /\ remote_ok = TRUE
    /\ remote_urls = <<>>
    /\ fetched = TRUE
    /\ tried = << <<1, 1>> >>
    /\ SPEED_DOMAIN = <<1, 1>>
    /\ ProxyIdle
    /\ DnsIdle

(* check, lines 49-62: the first stretch of a check task, up to the await  *)
(* of the POST.  With COUNT <= 0 the call f.close() reads the local f      *)
(* before its assignment at line 70 and raises UnboundLocalError, so       *)
(* os._exit is never reached; otherwise the request is sent.               *)
QuotaExhaustedOffByOne == COUNT < 0

QuotaExhausted == COUNT <= 0

CheckStart == IF QuotaExhausted THEN "raised" ELSE "post"

(* select, lines 75-88: one stretch of select between two awaits.  The     *)
(* first stretch parses the line (ValueError for a malformed one); every   *)
(* stretch collects the next batch and gathers its check tasks, or returns *)
(* at the end of the range.  The event loop runs the first stretches of    *)
(* the tasks of one gather back to back, before it polls for I/O, so they  *)
(* belong to the same step and read the same COUNT.                        *)
SelectAdvance(r) ==
    IF ~cloud_ips[r].valid
    THEN [sel |-> "raised", nxt |-> next[r], hnd |-> handed[r], chk |-> pc[r]]
    ELSE IF NextBatch(r) # {}
    THEN [sel |-> "wait",
          nxt |-> Min(next[r] + NUM_IPS, Size(cloud_ips[r])),
          hnd |-> handed[r] \o Collect(r),
          chk |-> [i \in Addrs(r) |-> IF i \in NextBatch(r) THEN CheckStart ELSE pc[r][i]]]
    ELSE [sel |-> "done", nxt |-> next[r], hnd |-> handed[r], chk |-> pc[r]]

(* run, lines 153-156: gather the select tasks of the next THREADS ranges  *)
(* (each runs its first stretch), or return when the ranges are used up.   *)
GroupReturnedNoAwait == TRUE

GroupReturned == \A r \in Group(grp - 1) : selpc[r] = "done"

RunStep ==
    /\ \/ runpc = "ready"
       \/ runpc = "wait" /\ GroupReturned
    /\ IF grp < NumGroups
       THEN /\ selpc' = [r \in Ranges |->
                           IF r \in Group(grp) THEN SelectAdvance(r).sel ELSE selpc[r]]
            /\ next' = [r \in Ranges |->
                           IF r \in Group(grp) THEN SelectAdvance(r).nxt ELSE next[r]]
            /\ handed' = [r \in Ranges |->
                           IF r \in Group(grp) THEN SelectAdvance(r).hnd ELSE handed[r]]
            /\ pc' = [r \in Ranges |->
                           IF r \in Group(grp) THEN SelectAdvance(r).chk ELSE pc[r]]
            /\ grp' = grp + 1
            /\ runpc' = "wait"
       ELSE /\ runpc' = "done"
            /\ UNCHANGED <<selpc, next, handed, pc, grp>>
    /\ UNCHANGED <<cloud_ips, quota0, COUNT, good_ips>>
    /\ UNCHANGED <<SPEED_DOMAIN, otherVars>>

(* select, lines 83-88: gather returns when every check task of the batch  *)
(* has returned, and select goes on with the next batch.                   *)
BatchReturnedNoAwait(r) == TRUE

BatchReturned(r) == \A i \in Addrs(r) : pc[r][i] \in Returned \cup {"none"}

SelectStep(r) ==
    /\ runpc = "wait"
    /\ selpc[r] = "wait"
    /\ BatchReturned(r)
    /\ selpc' = [selpc EXCEPT ![r] = SelectAdvance(r).sel]
    /\ next' = [next EXCEPT ![r] = SelectAdvance(r).nxt]
    /\ handed' = [handed EXCEPT ![r] = SelectAdvance(r).hnd]
    /\ pc' = [pc EXCEPT ![r] = SelectAdvance(r).chk]
    /\ UNCHANGED <<cloud_ips, quota0, COUNT, runpc, grp, good_ips>>
    /\ UNCHANGED <<SPEED_DOMAIN, otherVars>>

(* check, lines 63-64: a response with a status other than 200. *)
Non200FallsThrough(r, i) ==
    /\ runpc = "wait"
    /\ pc[r][i] = "post"
    /\ COUNT' = COUNT - 1
    /\ pc' = [pc EXCEPT ![r][i] = "rejected"]
    /\ UNCHANGED <<cloud_ips, quota0, runpc, grp, selpc, next, handed, good_ips>>
    /\ UNCHANGED <<SPEED_DOMAIN, otherVars>>

Non200(r, i) ==
    /\ runpc = "wait"
    /\ pc[r][i] = "post"
    /\ pc' = [pc EXCEPT ![r][i] = "rejected"]
    /\ UNCHANGED <<cloud_ips, quota0, COUNT, runpc, grp, selpc, next, handed, good_ips>>
    /\ UNCHANGED <<SPEED_DOMAIN, otherVars>>

(* check, lines 65-67: the request raises (connection error, timeout). *)
RequestErrorReResolves(r, i) ==
    /\ runpc = "wait"
    /\ pc[r][i] = "post"
    /\ pc' = [pc EXCEPT ![r][i] = "rejected"]
    /\ SPEED_DOMAIN' = None
    /\ UNCHANGED <<cloud_ips, quota0, COUNT, runpc, grp, selpc, next, handed, good_ips>>
    /\ UNCHANGED otherVars

RequestError(r, i) ==
    /\ runpc = "wait"
    /\ pc[r][i] = "post"
    /\ pc' = [pc EXCEPT ![r][i] = "rejected"]
    /\ UNCHANGED <<cloud_ips, quota0, COUNT, runpc, grp, selpc, next, handed, good_ips>>
    /\ UNCHANGED <<SPEED_DOMAIN, otherVars>>

(* check, lines 63 and 69-70: status 200, COUNT -= 1, then the task        *)
(* suspends in aiofiles.open.                                              *)
Commit(c) == c - 1

SuccessCancelsOthers(r, i) ==
    /\ runpc = "wait"
    /\ pc[r][i] = "post"
    /\ COUNT' = Commit(COUNT)
    /\ pc' = [q \in Ranges |-> [j \in Addrs(q) |->
                 IF <<q, j>> = <<r, i>> THEN "write"
                 ELSE IF COUNT' <= 0 /\ pc[q][j] = "post" THEN "cancelled"
                 ELSE pc[q][j]]]
    /\ UNCHANGED <<cloud_ips, quota0, runpc, grp, selpc, next, handed, good_ips>>
    /\ UNCHANGED <<SPEED_DOMAIN, otherVars>>

Success(r, i) ==
    /\ runpc = "wait"
    /\ pc[r][i] = "post"
    /\ COUNT' = Commit(COUNT)
    /\ pc' = [pc EXCEPT ![r][i] = "write"]
    /\ UNCHANGED <<cloud_ips, quota0, runpc, grp, selpc, next, handed, good_ips>>
    /\ UNCHANGED <<SPEED_DOMAIN, otherVars>>

(* check, lines 70-73: the line is appended and the task returns. *)
Record(r, i) ==
    /\ runpc = "wait"
    /\ pc[r][i] = "write"
    /\ good_ips' = Append(good_ips, <<r, i>>)
    /\ pc' = [pc EXCEPT ![r][i] = "done"]
    /\ UNCHANGED <<cloud_ips, quota0, COUNT, runpc, grp, selpc, next, handed>>
    /\ UNCHANGED <<SPEED_DOMAIN, otherVars>>

(* select, lines 83 and 88: gather re-raises the exception of a check task *)
(* in select; the other tasks of the batch are left running.               *)
SelectRaise(r) ==
    /\ runpc = "wait"
    /\ selpc[r] = "wait"
    /\ \E i \in Addrs(r) : pc[r][i] = "raised"
    /\ selpc' = [selpc EXCEPT ![r] = "raised"]
    /\ UNCHANGED <<cloud_ips, quota0, COUNT, runpc, grp, next, handed, pc, good_ips>>
    /\ UNCHANGED <<SPEED_DOMAIN, otherVars>>

(* run line 156, main line 168, line 174: the exception of a select task   *)
(* leaves run and main, and asyncio.run cancels every task still pending.  *)
Abort ==
    /\ runpc = "wait"
    /\ \E r \in Ranges : selpc[r] = "raised"
    /\ runpc' = "crashed"
    /\ selpc' = [r \in Ranges |-> IF selpc[r] = "wait" THEN "cancelled" ELSE selpc[r]]
    /\ pc' = [r \in Ranges |-> [i \in Addrs(r) |->
                 IF pc[r][i] \in {"post", "write"} THEN "cancelled" ELSE pc[r][i]]]
    /\ UNCHANGED <<cloud_ips, quota0, COUNT, grp, next, handed, good_ips>>
    /\ UNCHANGED <<SPEED_DOMAIN, otherVars>>

(***************************************************************************)
(* The search for a probe target: run lines 123-139, get_working_worker.   *)
(***************************************************************************)

(* What the GET of a candidate gives: a status, or an exception. *)
LiveKinds == {"200", "429", "503", "error"}

(* speed_urls_sources, lines 125-128: the lines of speedtest_urls.txt (no  *)
(* lines when the file is absent), then the lines of the remote list.      *)
Sources == <<local_urls, remote_urls>>

Candidates == {c \in (1..2) \X (1..MaxCand) : c[2] <= Len(Sources[c[1]])}

Live(c) == Sources[c[1]][c[2]]

(* get_working_worker, lines 94-101: the test on the answer of one GET. *)
AcceptsOnly200(kind) == kind = "200"

Accepts(kind) == kind # "error" /\ kind # "429"

(* The first candidate of source s or of a later source: the for loops of  *)
(* lines 130 and 92 pass over a source without lines with no await.        *)
FirstFrom(s) ==
    IF s <= 2 /\ Len(Sources[s]) > 0 THEN <<s, 1>>
    ELSE IF s + 1 <= 2 /\ Len(Sources[s + 1]) > 0 THEN <<s + 1, 1>>
    ELSE None

(* The candidate tried after candidate c was rejected. *)
NextCandidate(c) ==
    IF c[2] < Len(Sources[c[1]]) THEN <<c[1], c[2] + 1>> ELSE FirstFrom(c[1] + 1)

(* run, lines 135-151: without a target, "No worker found" and exit();     *)
(* with one, ips.txt is read (a run without ips.txt, modelled as a file    *)
(* of no lines, returns at line 148).                                      *)
NoWorker(domain) == domain = None

AfterSearch(domain) == IF NoWorker(domain) THEN "notarget" ELSE "ready"

(* run, lines 123-131, up to the first GET: both source lists are built,   *)
(* the remote one by requests.get, whose exception leaves run.             *)
FindWorker ==
    /\ runpc = "start"
    /\ fetched' = TRUE
    /\ IF ~remote_ok
       THEN /\ runpc' = "crashed"
            /\ UNCHANGED <<tried, SPEED_DOMAIN>>
       ELSE IF FirstFrom(1) = None
       THEN /\ runpc' = AfterSearch(None)
            /\ SPEED_DOMAIN' = None
            /\ UNCHANGED tried
       ELSE /\ runpc' = "resolve"
            /\ tried' = <<FirstFrom(1)>>
            /\ UNCHANGED SPEED_DOMAIN
    /\ UNCHANGED <<local_urls, remote_ok, remote_urls, probeVars, proxyVars, dnsVars>>

(* get_working_worker, lines 96-102, and run, lines 131-151: the answer of *)
(* the GET of the last candidate tried.  An accepted candidate becomes     *)
(* SPEED_DOMAIN; a rejected one is followed by the next candidate, and     *)
(* the end of a source assigns None.                                       *)
WorkerResponse ==
    /\ runpc = "resolve"
    /\ LET c == tried[Len(tried)] IN
       IF Accepts(Live(c))
       THEN /\ SPEED_DOMAIN' = c
            /\ runpc' = AfterSearch(c)
            /\ UNCHANGED tried
       ELSE IF NextCandidate(c) = None
       THEN /\ SPEED_DOMAIN' = None
            /\ runpc' = AfterSearch(None)
            /\ UNCHANGED tried
       ELSE /\ tried' = Append(tried, NextCandidate(c))
            /\ SPEED_DOMAIN' = IF NextCandidate(c)[1] # c[1] THEN None ELSE SPEED_DOMAIN
            /\ runpc' = "resolve"
    /\ UNCHANGED <<local_urls, remote_ok, remote_urls, fetched, probeVars, proxyVars, dnsVars>>

Next ==
    \/ RunStep
    \/ \E r \in Ranges : SelectStep(r)
    \/ \E r \in Ranges : \E i \in Addrs(r) : Non200(r, i)
    \/ \E r \in Ranges : \E i \in Addrs(r) : RequestError(r, i)
    \/ \E r \in Ranges : \E i \in Addrs(r) : Success(r, i)
    \/ \E r \in Ranges : \E i \in Addrs(r) : Record(r, i)
    \/ \E r \in Ranges : SelectRaise(r)
    \/ Abort

Spec == Init /\ [][Next]_vars

(* The event loop runs every task that is ready, and every request of a    *)
(* probe returns or times out (ClientTimeout, line 57).                    *)
FairSpec == Spec /\ WF_vars(Next)

(* A whole run, from line 123 on: the search for a target among at most    *)
(* MaxCand candidates, then the probing of an ips.txt of one line (or of   *)
(* none, for a run without ips.txt).                                       *)
UrlLists == UNION {[1..n -> LiveKinds] : n \in 0..MaxCand}

RunIpsFiles == {<<>>} \cup {lines \in IpsFiles : Len(lines) = 1}

InitRun ==
    /\ cloud_ips \in RunIpsFiles
    /\ InitProbe
    /\ runpc = "start"
    /\ local_urls \in UrlLists
    /\ remote_ok \in BOOLEAN
    /\ remote_urls \in (IF remote_ok THEN UrlLists ELSE {<<>>})
    /\ Len(local_urls) + Len(remote_urls) <= MaxCand
    /\ fetched = FALSE
    /\ tried = <<>>
    /\ SPEED_DOMAIN = None
    /\ ProxyIdle
    /\ DnsIdle

NextRun ==
    \/ FindWorker
    \/ WorkerResponse
    \/ Next

SpecRun == InitRun /\ [][NextRun]_vars

(***************************************************************************)
(* dupcf2.py: the proxies of a file are tested under a semaphore.          *)
(***************************************************************************)

(* A line of the input file, stripped: whether any text is left, and the   *)
(* number of ':' in it.                                                    *)
ProxyLines == {l \in [text : BOOLEAN, colons : 0..2] : ~l.text => l.colons = 0}

ProxyFiles == UNION {[1..n -> ProxyLines] : n \in 0..MaxProxies}

(* read_proxies_from_file, line 168: `if proxy and ':' in proxy`. *)
Keeps(line) == line.text /\ line.colons > 0

read_proxies_from_file(lines) == SelectSeq(lines, Keeps)

(* check_proxy, line 98: `ip, port = proxy.split(':')` unpacks two names   *)
(* from colons + 1 parts, and raises ValueError for any other number.      *)
SplitRaises(proxy) == proxy.colons + 1 # 2

(* The positions of a sem_check task: waiting for the semaphore, woken     *)
(* with a permit, inside check_proxy, returned, or left by an exception.   *)
InCheck == {"connect", "download", "upload"}

InFlightProxy == Cardinality({i \in DOMAIN tasks : tasks[i] \in InCheck})

(* A measured speed: 0.0, or a positive number of Mbps. *)
Speeds == {0, 1}

(* The first stretches of the tasks of line 149, which run in the order of *)
(* their creation: a task enters check_proxy while the semaphore has a     *)
(* permit, where the split of line 98 raises (and `async with` gives the   *)
(* permit back) or the connectivity GET is sent, and waits otherwise.      *)
RECURSIVE Started(_, _, _)
Started(ps, n, c) ==
    IF n = 0 THEN <<>>
    ELSE LET before == Started(ps, n - 1, c)
             used == Cardinality({j \in 1..(n - 1) : before[j] = "connect"})
         IN Append(before, IF used >= c THEN "waiting"
                           ELSE IF SplitRaises(ps[n]) THEN "raised" ELSE "connect")

(* The first task in the queue of the semaphore, 0 if there is none. *)
FirstWaiting(t) ==
    IF \E i \in DOMAIN t : t[i] = "waiting"
    THEN CHOOSE i \in DOMAIN t : t[i] = "waiting" /\ \A j \in 1..(i - 1) : t[j] # "waiting"
    ELSE 0

(* sem_check, line 144: the result is kept if a speed is positive. *)
KeptAlways(d, u) == TRUE

Kept(d, u) == d > 0 \/ u > 0

(* The end of sem_check(i) with the result or the exception of check_proxy:*)
(* lines 144-146 and the exit of `async with semaphore`, which hands the   *)
(* permit to the first waiting task or puts it back.                       *)
Leave(i, how) ==
    LET w == FirstWaiting(tasks) IN
    /\ tasks' = [j \in DOMAIN tasks |-> IF j = i THEN how
                                         ELSE IF j = w THEN "woken" ELSE tasks[j]]
    /\ semaphore' = IF w = 0 THEN semaphore + 1 ELSE semaphore

(* main, lines 207-215, and test_proxies, lines 138-150, up to the first   *)
(* suspension of every task.  An exception of a task is re-raised by       *)
(* gather, leaves test_proxies and run_until_complete, and ends the        *)
(* program while the other tasks are where they are.                       *)
Main ==
    /\ mainpc = "main"
    /\ proxies' = read_proxies_from_file(file)
    /\ IF proxies' = <<>>
       THEN /\ mainpc' = "noproxies"
            /\ UNCHANGED <<semaphore, tasks, resp, download_speed, upload_speed>>
       ELSE LET n == Len(proxies')
                t == Started(proxies', n, concurrency) IN
            /\ tasks' = t
            /\ semaphore' = concurrency - Cardinality({i \in 1..n : t[i] = "connect"})
            /\ resp' = [i \in 1..n |-> "none"]
            /\ download_speed' = [i \in 1..n |-> 0]
            /\ upload_speed' = [i \in 1..n |-> 0]
            /\ mainpc' = IF \E i \in 1..n : t[i] = "raised" THEN "crashed" ELSE "gather"
    /\ UNCHANGED <<file, concurrency, results>>
    /\ UNCHANGED <<probeVars, resolverVars, runpc, SPEED_DOMAIN, dnsVars>>

(* sem_check, lines 142-143, of a task that got its permit from a leaving  *)
(* task: check_proxy up to the connectivity GET.                           *)
Woken(i) ==
    /\ mainpc = "gather"
    /\ tasks[i] = "woken"
    /\ IF SplitRaises(proxies[i])
       THEN /\ Leave(i, "raised")
            /\ mainpc' = "crashed"
       ELSE /\ tasks' = [tasks EXCEPT ![i] = "connect"]
            /\ UNCHANGED <<semaphore, mainpc>>
    /\ UNCHANGED <<file, concurrency, proxies, resp, download_speed, upload_speed, results>>
    /\ UNCHANGED <<probeVars, resolverVars, runpc, SPEED_DOMAIN, dnsVars>>

(* check_proxy, lines 107-115: the answer of the connectivity GET.  Only   *)
(* status 200 leads to the speed tests; any other status and any           *)
(* exception return zero speeds.                                           *)
ConnectResponse(i, status) ==
    /\ mainpc = "gather"
    /\ tasks[i] = "connect"
    /\ resp' = [resp EXCEPT ![i] = status]
    /\ IF status = "200"
       THEN /\ tasks' = [tasks EXCEPT ![i] = "download"]
            /\ UNCHANGED <<semaphore, results>>
       ELSE /\ Leave(i, "finished")
            /\ results' = IF Kept(0, 0) THEN Append(results, <<i, 0, 0>>) ELSE results
    /\ UNCHANGED <<file, concurrency, proxies, download_speed, upload_speed, mainpc>>
    /\ UNCHANGED <<probeVars, resolverVars, runpc, SPEED_DOMAIN, dnsVars>>

(* check_proxy, line 118: measure_download_speed returns. *)
DownloadDone(i, speed) ==
    /\ mainpc = "gather"
    /\ tasks[i] = "download"
    /\ download_speed' = [download_speed EXCEPT ![i] = speed]
    /\ tasks' = [tasks EXCEPT ![i] = "upload"]
    /\ UNCHANGED <<file, concurrency, proxies, semaphore, resp, upload_speed, results, mainpc>>
    /\ UNCHANGED <<probeVars, resolverVars, runpc, SPEED_DOMAIN, dnsVars>>

(* check_proxy, lines 119-121, and sem_check, lines 144-146. *)
UploadDone(i, speed) ==
    /\ mainpc = "gather"
    /\ tasks[i] = "upload"
    /\ upload_speed' = [upload_speed EXCEPT ![i] = speed]
    /\ Leave(i, "finished")
    /\ results' = IF Kept(download_speed[i], speed)
                  THEN Append(results, <<i, download_speed[i], speed>>) ELSE results
    /\ UNCHANGED <<file, concurrency, proxies, resp, download_speed, mainpc>>
    /\ UNCHANGED <<probeVars, resolverVars, runpc, SPEED_DOMAIN, dnsVars>>

(* test_proxies, lines 150-151: gather returns when every task has. *)
GatherReturns ==
    /\ mainpc = "gather"
    /\ \A i \in DOMAIN tasks : tasks[i] = "finished"
    /\ mainpc' = "returned"
    /\ UNCHANGED <<file, concurrency, proxies, semaphore, tasks, resp,
                   download_speed, upload_speed, results>>
    /\ UNCHANGED <<probeVars, resolverVars, runpc, SPEED_DOMAIN, dnsVars>>

(* Cfsc.py is not running. *)
CfscIdle ==
    /\ cloud_ips = <<>>
    /\ quota0 = 1
    /\ COUNT = quota0
    /\ grp = 0
    /\ selpc = <<>>
    /\ next = <<>>
    /\ handed = <<>>
    /\ pc = <<>>
    /\ good_ips = <<>>
    /\ runpc = "start"
    /\ local_urls = <<>>
    /\ remote_ok = TRUE
    /\ remote_urls = <<>>
    /\ fetched = FALSE
    /\ tried = <<>>
    /\ SPEED_DOMAIN = None

InitProxy ==
    /\ CfscIdle
    /\ DnsIdle
    /\ file \in ProxyFiles
    /\ concurrency \in 0..MaxConc
    /\ proxies = <<>>
    /\ semaphore = 0
    /\ tasks = <<>>
    /\ resp = <<>>
    /\ download_speed = <<>>
    /\ upload_speed = <<>>
    /\ results = <<>>
    /\ mainpc = "main"

NextProxy ==
    \/ Main
    \/ \E i \in DOMAIN tasks : Woken(i)
    \/ \E i \in DOMAIN tasks : \E status \in {"200", "non200", "error"} : ConnectResponse(i, status)
    \/ \E i \in DOMAIN tasks : \E speed \in Speeds : DownloadDone(i, speed)
    \/ \E i \in DOMAIN tasks : \E speed \in Speeds : UploadDone(i, speed)
    \/ GatherReturns

SpecProxy == InitProxy /\ [][NextProxy]_vars

(***************************************************************************)
(* dupcf.py: an A record is created for the addresses of ips.txt.          *)
(***************************************************************************)
Addresses == 1..NumAddrs

(* A line of ips.txt, stripped: an address, or 0 for a blank line. *)
IpFiles == UNION {[1..n -> {0} \cup Addresses] : n \in 0..MaxLines}

IsAddress(line) == line # 0

(* read_ips_from_file, line 153: the stripped lines that are not blank. *)
read_ips_from_file(lines) == SelectSeq(lines, IsAddress)

(* The end of an iteration of the loop of line 202, and line 228. *)
NextAddress ==
    /\ pos' = pos + 1
    /\ dnspc' = IF pos = Len(ips) THEN "completed" ELSE "loop"

(* create_records, lines 187-200: ips.txt is read (sys.exit(1) when it has *)
(* no address) and the A records of the subdomain are fetched once         *)
(* (sys.exit(1) when the API call fails).                                  *)
FetchExisting(existing_records, fetch_ok) ==
    /\ dnspc = "start"
    /\ ips' = read_ips_from_file(ipfile)
    /\ IF ips' = <<>> \/ ~fetch_ok
       THEN /\ dnspc' = "exited"
            /\ UNCHANGED <<existing_ips, pos>>
       ELSE /\ existing_ips' = existing_records
            /\ pos' = 1
            /\ dnspc' = "loop"
    /\ UNCHANGED <<ipfile, requests>>
    /\ UNCHANGED <<probeVars, resolverVars, runpc, SPEED_DOMAIN, proxyVars>>

(* create_records, lines 203-206: the address was among the fetched        *)
(* records.                                                                *)
SkipExisting ==
    /\ dnspc = "loop"
    /\ ips[pos] \in existing_ips
    /\ NextAddress
    /\ UNCHANGED <<ipfile, ips, existing_ips, requests>>
    /\ UNCHANGED <<probeVars, resolverVars, runpc, SPEED_DOMAIN, proxyVars>>

(* create_records, lines 208-226: the create request is sent; its          *)
(* CloudFlareAPIError is reported and the loop goes on.  The API accepts   *)
(* a record only once.                                                     *)
CreateRecord(ok) ==
    /\ dnspc = "loop"
    /\ ips[pos] \notin existing_ips
    /\ ok => \A k \in DOMAIN requests : ~(requests[k].ip = ips[pos] /\ requests[k].ok)
    /\ requests' = Append(requests, [ip |-> ips[pos], ok |-> ok])
    /\ NextAddress
    /\ UNCHANGED <<ipfile, ips, existing_ips>>
    /\ UNCHANGED <<probeVars, resolverVars, runpc, SPEED_DOMAIN, proxyVars>>

InitDns ==
    /\ CfscIdle
    /\ ProxyIdle
    /\ ipfile \in IpFiles
    /\ ips = <<>>
    /\ existing_ips = {}
    /\ pos = 0
    /\ requests = <<>>
    /\ dnspc = "start"

NextDns ==
    \/ \E existing_records \in SUBSET Addresses : \E fetch_ok \in BOOLEAN :
          FetchExisting(existing_records, fetch_ok)
    \/ SkipExisting
    \/ \E ok \in BOOLEAN : CreateRecord(ok)

SpecDns == InitDns /\ [][NextDns]_vars

(***************************************************************************)
(* Properties of the quota, the result sink and the scheduling of Cfsc.py. *)
(***************************************************************************)
Probes == {p \in Ranges \X (1..(2^MaxPrefix)) : p[2] \in Addrs(p[1])}

AllValid == \A r \in Ranges : cloud_ips[r].valid

RunEnded == runpc \in {"done", "crashed"}

(* C1: the shared quota COUNT is never negative, under any interleaving of *)
(* the check probes.                                                       *)
C1_QuotaNeverNegative == COUNT >= 0

(* C2: the number of lines appended to good_ips.txt never exceeds the      *)
(* quota the run started with.                                             *)
C2_SinkWithinQuota == Len(good_ips) <= quota0

(* C3: the decrement of the quota (and the record that follows it) happens *)
(* only in a step in which the quota is still positive; a success observed *)
(* after the quota reached zero is discarded.                              *)
C3_CommitOnlyWhilePositive == [][COUNT' # COUNT => COUNT > 0]_vars

(* C4: when a run over valid ranges holding at least quota0 endpoints, all *)
(* of whose probes succeed, has ended, exactly quota0 endpoints have been  *)
(* recorded.                                                               *)
C4_ExactlyQuotaRecorded ==
    (/\ RunEnded
     /\ AllValid
     /\ Cardinality(Probes) >= quota0
     /\ \A p \in Probes : pc[p[1]][p[2]] # "rejected")
    => Len(good_ips) = quota0

(* C5: the number of check calls in flight never exceeds THREADS ranges    *)
(* times NUM_IPS endpoints.                                                *)
C5_InFlightBounded == Cardinality(InFlight) <= THREADS * NUM_IPS

C5_Witness ==
    /\ Cardinality(InFlight) = THREADS * NUM_IPS
    /\ \A p \in InFlight : pc[p[1]][p[2]] = "post"

(* C6, as claimed: once the quota is zero, no probe starts network         *)
(* activity and no further batch is handed to the executor.                *)
C6_NoBatchAfterZero ==
    [][COUNT <= 0 =>
         \A p \in Probes :
             /\ pc'[p[1]][p[2]] = "post" => pc[p[1]][p[2]] = "post"
             /\ pc'[p[1]][p[2]] # "none" => pc[p[1]][p[2]] # "none"]_vars

(* C6, amended: once the quota is zero, no probe that starts afterwards    *)
(* performs network activity (a batch may still be handed to the executor, *)
(* and each of its check calls stops at the quota check).                  *)
C6_NoNetworkAfterZero ==
    [][COUNT <= 0 =>
         \A p \in Probes :
             pc'[p[1]][p[2]] = "post" => pc[p[1]][p[2]] = "post"]_vars

C6_Witness ==
    /\ COUNT <= 0
    /\ \E p \in Probes : pc[p[1]][p[2]] = "raised"
    /\ \A p \in Probes : pc[p[1]][p[2]] # "post"

C8_EveryDecrementRecorded ==
    (AllValid /\ RunEnded) => Len(good_ips) = quota0 - COUNT

(* C9: a check call that finds the quota at zero raises no exception and   *)
(* the run ends in a non-error state.                                      *)
C9_ExhaustionNotAnError ==
    AllValid => /\ \A p \in Probes : pc[p[1]][p[2]] # "raised"
                /\ runpc # "crashed"

(* C10: a failing probe (non-200 status or an exception of the request)    *)
(* changes neither the quota nor the sink, nor any other probe, range or   *)
(* the run; the quota changes only in the step of a successful probe, and  *)
(* then by exactly one.                                                    *)
C10_FailureAbsorbed ==
    [][/\ \A p \in Probes :
            (pc[p[1]][p[2]] = "post" /\ pc'[p[1]][p[2]] = "rejected")
            => /\ COUNT' = COUNT
               /\ good_ips' = good_ips
               /\ runpc' = runpc
               /\ selpc' = selpc
               /\ \A q \in Probes \ {p} : pc'[q[1]][q[2]] = pc[q[1]][q[2]]
       /\ COUNT' # COUNT
            => /\ COUNT' = COUNT - 1
               /\ \E p \in Probes : pc[p[1]][p[2]] = "post" /\ pc'[p[1]][p[2]] = "write"]_vars

C10_Witness ==
    /\ runpc = "done"
    /\ \E r \in Ranges : \E i, j \in Addrs(r) :
           pc[r][i] = "rejected" /\ pc[r][j] = "done"
    /\ Len(good_ips) = quota0 - COUNT

(* The whole range, as ip_network iterates over it. *)
AllAddrs(r) == [k \in 1..Size(cloud_ips[r]) |-> k]

(* The batch an address falls in, and the group of a range. *)
BatchOf(i) == (i - 1) \div NUM_IPS

GroupOf(r) == (r - 1) \div THREADS

(* C11: a line of ips.txt that does not parse is skipped and is not fatal: *)
(* when the run has ended with the quota never exhausted, it ended         *)
(* normally and every endpoint of every valid line was handed to check.    *)
C11_MalformedLineSkipped ==
    (RunEnded /\ COUNT > 0)
    => /\ runpc = "done"
       /\ \A r \in Ranges : cloud_ips[r].valid => handed[r] = AllAddrs(r)

C20_BatchBarrier ==
    \A p \in Probes :
        pc[p[1]][p[2]] # "none"
        => /\ \A j \in Addrs(p[1]) :
                  BatchOf(j) < BatchOf(p[2]) => pc[p[1]][j] \in Returned
           /\ \A q \in Ranges :
                  GroupOf(q) < GroupOf(p[1])
                  => /\ selpc[q] = "done"
                     /\ \A j \in Addrs(q) : pc[q][j] \in Returned

C20_Witness ==
    /\ \E p \in Probes : GroupOf(p[1]) > 0 /\ pc[p[1]][p[2]] = "post"
    /\ \E p \in Probes : GroupOf(p[1]) = 0 /\ BatchOf(p[2]) > 0

(***************************************************************************)
(* Properties of the search for a probe target.                            *)
(***************************************************************************)

(* The candidates in the order of the sources and of their lines. *)
CandOrder ==
    [k \in 1..(Len(local_urls) + Len(remote_urls)) |->
        IF k <= Len(local_urls) THEN <<1, k>> ELSE <<2, k - Len(local_urls)>>]

(* A candidate whose GET neither raises nor returns 429. *)
Acceptable(c) == Live(c) \notin {"429", "error"}

SearchEnded == runpc \notin {"start", "resolve"}

(* C12: the target is the first candidate, local list first, whose GET     *)
(* neither raises nor returns 429; exactly the candidates up to it were    *)
(* contacted, in order; and the search ends without a target only when no  *)
(* candidate is acceptable.                                                *)
C12_FirstAcceptable ==
    /\ SPEED_DOMAIN # None
       => \E n \in 1..Len(CandOrder) :
              /\ SPEED_DOMAIN = CandOrder[n]
              /\ Acceptable(CandOrder[n])
              /\ \A m \in 1..(n - 1) : ~Acceptable(CandOrder[m])
              /\ tried = SubSeq(CandOrder, 1, n)
    /\ runpc = "notarget" => \A c \in Candidates : ~Acceptable(c)

C12_Witness ==
    /\ SearchEnded
    /\ SPEED_DOMAIN = <<1, 2>>
    /\ Live(<<1, 1>>) = "429"
    /\ Live(<<1, 2>>) = "200"
    /\ Len(remote_urls) > 0
    /\ tried = << <<1, 1>>, <<1, 2>> >>

(* C13: when the GET of every candidate of every source raises or returns  *)
(* 429, the run never starts a check call and leaves the quota and         *)
(* good_ips.txt alone: it is searching, or it has ended with "No worker    *)
(* found".                                                                 *)
C13_NoTargetNoProbe ==
    (\A c \in Candidates : ~Acceptable(c))
    => /\ runpc \in {"start", "resolve", "notarget"}
       /\ \A p \in Probes : pc[p[1]][p[2]] = "none"
       /\ \A r \in Ranges : handed[r] = <<>> /\ selpc[r] = "none"
       /\ COUNT = quota0
       /\ good_ips = <<>>

(* C14: no check call starts without a target, and from the end of the     *)
(* search on SPEED_DOMAIN is never written again.                          *)
C14_TargetFixed ==
    /\ [](\A p \in Probes : pc[p[1]][p[2]] # "none" => SPEED_DOMAIN # None)
    /\ [][SearchEnded => SPEED_DOMAIN' = SPEED_DOMAIN]_vars

C14_Witness ==
    /\ runpc = "done"
    /\ SPEED_DOMAIN = <<2, 1>>
    /\ \E p \in Probes : pc[p[1]][p[2]] = "rejected"
    /\ \E p \in Probes : pc[p[1]][p[2]] = "done"

(* C16: a run whose local list holds an acceptable candidate does not      *)
(* fetch the remote list and selects a local candidate whatever becomes of *)
(* that fetch.                                                             *)
C16_RemoteOnlyAsFallback ==
    (\E c \in Candidates : c[1] = 1 /\ Acceptable(c))
    => /\ ~fetched
       /\ SearchEnded => SPEED_DOMAIN[1] = 1

(***************************************************************************)
(* Properties of dupcf2.py.                                                *)
(***************************************************************************)
WellFormed == \A i \in DOMAIN proxies : ~SplitRaises(proxies[i])

(* C17: at most concurrency check_proxy calls are in flight, and while     *)
(* test_proxies waits for its tasks some task that has not returned holds  *)
(* a permit, so that every proxy is checked in the end.                    *)
C17_BoundedNoDeadlock ==
    WellFormed
    => /\ InFlightProxy <= concurrency
       /\ mainpc = "gather"
          => \/ \A i \in DOMAIN tasks : tasks[i] = "finished"
             \/ \E i \in DOMAIN tasks : tasks[i] \in InCheck \cup {"woken"}

(* C18: whatever entries read_proxies_from_file accepted, no exception     *)
(* leaves a task or test_proxies.                                          *)
C18_FailuresAbsorbed ==
    /\ mainpc # "crashed"
    /\ \A i \in DOMAIN tasks : tasks[i] # "raised"

Listed == {results[k] : k \in DOMAIN results}

(* C19: a speed test runs only after the connectivity check returned 200;  *)
(* a proxy whose connectivity check failed has zero speeds and is left     *)
(* out; no entry is listed twice; and the list test_proxies returns holds  *)
(* exactly the proxies with a positive download or upload speed.           *)
C19_SpeedTestsAfterConnect ==
    /\ \A i \in DOMAIN tasks :
          /\ tasks[i] \in {"download", "upload"} => resp[i] = "200"
          /\ (download_speed[i] > 0 \/ upload_speed[i] > 0) => resp[i] = "200"
          /\ (tasks[i] = "finished" /\ resp[i] # "200")
             => /\ download_speed[i] = 0
                /\ upload_speed[i] = 0
                /\ \A k \in DOMAIN results : results[k][1] # i
          /\ Cardinality({k \in DOMAIN results : results[k][1] = i}) <= 1
    /\ mainpc = "returned"
       => Listed = {<<i, download_speed[i], upload_speed[i]>> :
                      i \in {j \in DOMAIN tasks : download_speed[j] > 0 \/ upload_speed[j] > 0}}

C19_Witness ==
    /\ mainpc = "returned"
    /\ Len(proxies) = 3
    /\ resp[1] = "non200"
    /\ resp[2] = "200" /\ download_speed[2] = 0 /\ upload_speed[2] = 0
    /\ resp[3] = "200" /\ download_speed[3] = 0 /\ upload_speed[3] > 0
    /\ results = << <<3, 0, 1>> >>

(***************************************************************************)
(* Termination of Cfsc.py.                                                 *)
(***************************************************************************)
ProbedOnce(r) ==
    /\ handed[r] = AllAddrs(r)
    /\ \A i \in Addrs(r) : pc[r][i] \in Returned

(* C21: the run ends, and when it has ended the quota is exhausted or      *)
(* every endpoint of every range was probed exactly once.                  *)
C21_TerminatesComplete ==
    /\ <>RunEnded
    /\ [](RunEnded => (COUNT <= 0 \/ \A r \in Ranges : ProbedOnce(r)))

(***************************************************************************)
(* Properties of dupcf.py.                                                 *)
(***************************************************************************)
RequestsFor(a) == {k \in DOMAIN requests : requests[k].ip = a}

(* C22: no create request is sent for an address that has an A record, at *)
(* most one is sent for an address, and when create_records has gone       *)
(* through ips.txt every address without a record had its request,         *)
(* whatever became of the requests before it.                              *)
C22_OneCreatePerAddress ==
    /\ \A a \in Addresses :
          /\ a \in existing_ips => RequestsFor(a) = {}
          /\ Cardinality(RequestsFor(a)) <= 1
    /\ dnspc = "completed"
       => \A k \in DOMAIN ips : ips[k] \notin existing_ips => RequestsFor(ips[k]) # {}
====
